---- MODULE Spec2Model ----
(***************************************************************************)
(* Model of the drag-drop project board.                                   *)
(*                                                                         *)
(* The repository holds two scripts. src/src/app.ts is the full board: the *)
(* ProjectState store with its listeners, the two ProjectList columns and  *)
(* the drag and drop handlers. src/unnamed/part_000 is the other script of *)
(* the repository: a ProjectState whose addProject builds a project object *)
(* without a status and which has neither listeners nor moveProject.  One  *)
(* of the two scripts is loaded in a page; the variable build says which.  *)
(*                                                                         *)
(* Project objects live on a heap (JavaScript objects are references):     *)
(* heap[a] is the object allocated a-th, and the store's list, the         *)
(* snapshots handed to listeners and the columns' subsets are sequences of *)
(* addresses.  projects.slice() copies the array, not the objects.         *)
(*                                                                         *)
(* The store's operations constrain the store's variables only; the event  *)
(* handlers of the form and of the columns, which call them, and the       *)
(* next-state relations say what happens to the rest of the state.         *)
(***************************************************************************)
EXTENDS Integers, Sequences, FiniteSets, TLC

\* ---------------------------------------------------------------- bounds
MaxProjects == 3
MaxExtraListeners == 1
\* Listeners other than the columns' where listeners that change their array
\* are registered too.
MaxObservers == 2

\* Inputs of the calls, drawn from small sets.
Titles == {"A", "B"}
Descriptions == {"descr"}
Peoples == {3}
\* The strings `${Math.random().toString()}${new Date().toISOString()}` can
\* evaluate to: nothing in the code makes two evaluations differ.
IdStrings == {"id1", "id2", "id3"}
\* What a drop can carry as project id: any id string, or the empty string
\* getData returns when no text/plain data was set.
ProjectIds == IdStrings \cup {""}

\* ---------------------------------------------------------------- types
Active == "Active"
Finished == "Finished"
ProjectStatus == {Active, Finished}
\* Reading the status of an object built without one yields undefined.
Undefined == "undefined"

ColumnTypes == {"active", "finished"}
\* A listener function registered by some other caller of addListener: it keeps
\* the array it was given.
Probe == "probe"
\* Another such listener function: it changes the array it was given (it
\* reverses it, removes its last element or pushes an element onto it).
Mutator == "mutator"

VARIABLES
    build,            \* "app" (src/src/app.ts) or "part000" (src/unnamed/part_000)
    heap,             \* the Project objects (app.ts 15-18), in allocation order
    projects,         \* ProjectState.projects (app.ts 32, part_000 3): addresses into heap
    listeners,        \* State.listeners (app.ts 24): the listener functions, in order
    assignedProject,  \* ProjectList.assignedProject (app.ts 188) of each column
    received,         \* the array the probe listener was last given (app.ts 63)
    started,          \* ProjectList objects constructed so far (app.ts 334-335)
    pc,               \* "idle", or "notify" while updateListeners runs its loop
    cursor,           \* position of the for-of loop of updateListeners (app.ts 62)
    lastCall,         \* history: the last operation called on the store
    calls,            \* history: the listener invocations made by the last call
    form,             \* the value of the three input elements (app.ts 260-262)
    drag,             \* the drag in progress and its dataTransfer, or NoDrag
    droppable,        \* per column: its ul has the class 'droppable' (app.ts 206, 213)
    lastEvent,        \* history: the last event a handler of the page was run for
    validatable,      \* the argument of a call of validate (app.ts 81)
    isValid           \* what that call returned, "pending" before it

\* The variables of the store and of its listeners.
storeVars == <<build, heap, projects, listeners, assignedProject, received,
               started, pc, cursor, lastCall, calls>>

\* The variables of the form, of the drag and drop handlers and of validate.
pageVars == <<form, drag, droppable, lastEvent, validatable, isValid>>

vars == <<build, heap, projects, listeners, assignedProject, received,
          started, pc, cursor, lastCall, calls,
          form, drag, droppable, lastEvent, validatable, isValid>>

Project(id, title, description, people, status) ==
    [id |-> id, title |-> title, description |-> description,
     people |-> people, status |-> status]

NoCall == [op |-> "none", projectId |-> "", newStatus |-> Active, changed |-> FALSE]
Call(op, projectId, newStatus, changed) ==
    [op |-> op, projectId |-> projectId, newStatus |-> newStatus, changed |-> changed]

Range(s) == {s[i] : i \in DOMAIN s}

\* Array.prototype.slice(): a new array holding the same object references.
slice(arr) == [i \in 1..Len(arr) |-> arr[i]]

\* The objects a sequence of addresses refers to, read through heap h.
Deref(h, arr) == [i \in 1..Len(arr) |-> h[arr[i]]]

\* ---------------------------------------------------------------- values
\* A JavaScript string is the sequence of its characters, a JavaScript number
\* is a count of tenths (3 is 30 tenths, 2.5 is 25) or NaN.
JsString(chars) == [type |-> "string", chars |-> chars, nan |-> FALSE, tenths |-> 0]
JsNumber(tenths) == [type |-> "number", chars |-> <<>>, nan |-> FALSE, tenths |-> tenths]
NaN == [type |-> "number", chars |-> <<>>, nan |-> TRUE, tenths |-> 0]

WhiteSpace == {" "}
Digits == <<"0", "1", "2", "3", "4", "5", "6", "7", "8", "9">>
DigitChars == Range(Digits)
DigitValue(c) == (CHOOSE i \in 1..10 : Digits[i] = c) - 1

\* String.prototype.trim: the string without its leading and trailing white space.
RECURSIVE trimStart(_)
trimStart(chars) ==
    IF chars # <<>> /\ Head(chars) \in WhiteSpace THEN trimStart(Tail(chars))
    ELSE chars

RECURSIVE trimEnd(_)
trimEnd(chars) ==
    IF chars # <<>> /\ chars[Len(chars)] \in WhiteSpace
    THEN trimEnd(SubSeq(chars, 1, Len(chars) - 1))
    ELSE chars

trim(chars) == trimEnd(trimStart(chars))

\* The characters of a non-negative integer in decimal.
RECURSIVE naturalToChars(_)
naturalToChars(n) ==
    IF n < 10 THEN <<Digits[n + 1]>>
    ELSE naturalToChars(n \div 10) \o <<Digits[(n % 10) + 1]>>

\* Number.prototype.toString / String.prototype.toString.
toString(value) ==
    IF value.type = "string" THEN value.chars
    ELSE IF value.nan THEN <<"N", "a", "N">>
    ELSE LET abs == IF value.tenths < 0 THEN 0 - value.tenths ELSE value.tenths
             sign == IF value.tenths < 0 THEN <<"-">> ELSE <<>>
             frac == IF abs % 10 = 0 THEN <<>> ELSE <<".", Digits[(abs % 10) + 1]>>
         IN sign \o naturalToChars(abs \div 10) \o frac

\* The value of a sequence of decimal digits.
RECURSIVE digitsToNatural(_)
digitsToNatural(chars) ==
    IF chars = <<>> THEN 0
    ELSE 10 * digitsToNatural(SubSeq(chars, 1, Len(chars) - 1))
         + DigitValue(chars[Len(chars)])

\* The unary plus applied to a string (ToNumber): white space is trimmed, the
\* empty string is 0, a decimal literal with an optional sign is its value and
\* anything else is NaN.  Literals have at most one digit after the point here.
toNumber(chars) ==
    LET t == trim(chars)
        signed == t # <<>> /\ t[1] \in {"-", "+"}
        body == IF signed THEN Tail(t) ELSE t
        points == {i \in 1..Len(body) : body[i] = "."}
        point == IF points = {} THEN Len(body) + 1
                 ELSE CHOOSE i \in points : \A j \in points : i <= j
        whole == SubSeq(body, 1, point - 1)
        frac == SubSeq(body, point + 1, Len(body))
        wellFormed == /\ Range(whole) \cup Range(frac) \subseteq DigitChars
                      /\ Len(whole) + Len(frac) > 0
                      /\ Len(frac) <= 1
        magnitude == 10 * digitsToNatural(whole) + digitsToNatural(frac)
    IN IF t = <<>> THEN JsNumber(0)
       ELSE IF ~wellFormed THEN NaN
       ELSE IF signed /\ t[1] = "-" THEN JsNumber(0 - magnitude)
       ELSE JsNumber(magnitude)

\* An optional property of an object literal: <<>> when it is left out, <<v>>
\* when it is given with value v.
Absent == <<>>
Given(v) == <<v>>

\* A Validatable (app.ts 71-78).
Validatable(value, required, minLength, maxLength, min, max) ==
    [value |-> value, required |-> required, minLength |-> minLength,
     maxLength |-> maxLength, min |-> min, max |-> max]

\* Variant of validate whose length floor is exclusive (> in place of >=).
validate_exclusiveMinLength(validatableInput) ==
    LET value == validatableInput.value
        required ==
            IF validatableInput.required = Given(TRUE)
            THEN Len(trim(toString(value))) # 0 ELSE TRUE
        minLength ==
            IF validatableInput.minLength # Absent /\ value.type = "string"
            THEN Len(value.chars) > validatableInput.minLength[1] ELSE TRUE
        maxLength ==
            IF validatableInput.maxLength # Absent /\ value.type = "string"
            THEN Len(value.chars) <= validatableInput.maxLength[1] ELSE TRUE
        min ==
            IF validatableInput.min # Absent /\ value.type = "number"
            THEN ~value.nan /\ value.tenths >= 10 * validatableInput.min[1] ELSE TRUE
        max ==
            IF validatableInput.max # Absent /\ value.type = "number"
            THEN ~value.nan /\ value.tenths <= 10 * validatableInput.max[1] ELSE TRUE
    IN required /\ minLength /\ maxLength /\ min /\ max

\* validate (app.ts 81-104, part_000 39-62): isValid starts true and every if
\* statement whose condition holds conjoins its test.  A comparison with NaN is
\* false.
validate(validatableInput) ==
    LET value == validatableInput.value
        required ==
            IF validatableInput.required = Given(TRUE)
            THEN Len(trim(toString(value))) # 0 ELSE TRUE
        minLength ==
            IF validatableInput.minLength # Absent /\ value.type = "string"
            THEN Len(value.chars) >= validatableInput.minLength[1] ELSE TRUE
        maxLength ==
            IF validatableInput.maxLength # Absent /\ value.type = "string"
            THEN Len(value.chars) <= validatableInput.maxLength[1] ELSE TRUE
        min ==
            IF validatableInput.min # Absent /\ value.type = "number"
            THEN ~value.nan /\ value.tenths >= 10 * validatableInput.min[1] ELSE TRUE
        max ==
            IF validatableInput.max # Absent /\ value.type = "number"
            THEN ~value.nan /\ value.tenths <= 10 * validatableInput.max[1] ELSE TRUE
    IN required /\ minLength /\ maxLength /\ min /\ max

\* Variant of keeps with the comparison of the first branch repeated in the
\* second one: both kinds of column keep the Active projects.
keeps_bothActive(type, prj) ==
    IF type = "active" THEN prj.status = Active
    ELSE prj.status = Active

\* The predicate of the listener's filter (app.ts 230-235): an 'active' column
\* keeps the projects whose status is Active, any other column those whose
\* status is Finished.
keeps(type, prj) ==
    IF type = "active" THEN prj.status = Active
    ELSE prj.status = Finished

\* projects.filter(...) of the column listener: the elements of items the column
\* keeps, in the order of items; h is the heap the statuses are read from.
RECURSIVE relevantProjects(_, _, _)
relevantProjects(type, h, items) ==
    IF items = <<>> THEN <<>>
    ELSE IF keeps(type, h[Head(items)])
         THEN <<Head(items)>> \o relevantProjects(type, h, Tail(items))
         ELSE relevantProjects(type, h, Tail(items))

\* Array.prototype.find over the store's list: the address of the first project
\* whose id is projectId, 0 (undefined) when there is none.
RECURSIVE findFrom(_, _, _)
findFrom(h, arr, projectId) ==
    IF arr = <<>> THEN 0
    ELSE IF h[Head(arr)].id = projectId THEN Head(arr)
    ELSE findFrom(h, Tail(arr), projectId)

find(projectId) == findFrom(heap, projects, projectId)

\* ---------------------------------------------------------------- start-up
\* The three input elements with nothing entered.
ClearedForm == [title |-> <<>>, description |-> <<>>, people |-> <<>>]

\* A drag: where it started ("card" for a ProjectItem, "foreign" for anything
\* else, "none" when there is no drag), the dragged card's project, whether its
\* events carry a dataTransfer, the declared types and the text/plain data of
\* the dataTransfer, the column the pointer is over, and whether the last
\* dragover there had its default prevented.
Drag(source, card, dataTransfer, types, data) ==
    [source |-> source, card |-> card, dataTransfer |-> dataTransfer,
     types |-> types, data |-> data, over |-> "none", accepted |-> FALSE]
NoDrag == Drag("none", 0, FALSE, <<>>, "")

\* The last event a handler has seen: its type, the column it fired on, whether
\* the handler accepted it, and the project of the card of a drop.
Event(type, column, accepted, card) ==
    [type |-> type, column |-> column, accepted |-> accepted, card |-> card]
NoEvent == Event("none", "none", FALSE, 0)
NoValidatable == Validatable(JsString(<<>>), Absent, Absent, Absent, Absent, Absent)

\* The page as the script finds it: empty inputs, no drag, no column marked.
InitPage ==
    /\ form = ClearedForm
    /\ drag = NoDrag
    /\ droppable = [t \in {"active", "finished"} |-> FALSE]
    /\ lastEvent = NoEvent
    /\ isValid = "pending"

\* The state when the script has built the store (app.ts 68) and the form
\* (app.ts 333); part_000 builds no state besides the empty store (its
\* ProjectList and ProjectForm keep only DOM elements).
InitStore ==
    /\ build \in {"app", "part000"}
    /\ heap = <<>>
    /\ projects = <<>>
    /\ listeners = <<>>
    /\ assignedProject = [t \in ColumnTypes |-> <<>>]
    /\ received = <<>>
    /\ started = IF build = "app" THEN 0 ELSE 2
    /\ pc = "idle"
    /\ cursor = 0
    /\ lastCall = NoCall
    /\ calls = <<>>

Init ==
    /\ InitStore
    /\ InitPage
    /\ validatable = NoValidatable

\* State.addListener: push onto listeners.
addListener(listenerFn) ==
    listeners' = Append(listeners, listenerFn)

\* new ProjectList(type), app.ts 334-335: 'active' first, then 'finished'.  The
\* constructor empties assignedProject and configure() registers the column's
\* listener with the store.
newProjectList ==
    /\ build = "app"
    /\ started < 2
    /\ pc = "idle"
    /\ LET type == IF started = 0 THEN "active" ELSE "finished" IN
         /\ assignedProject' = [assignedProject EXCEPT ![type] = <<>>]
         /\ addListener(type)
    /\ started' = started + 1
    /\ lastCall' = Call("newProjectList", "", Active, FALSE)
    /\ calls' = <<>>
    /\ UNCHANGED <<build, heap, projects, received, pc, cursor>>

\* Variant of addListenerCall in which addListener calls the new listener at
\* once with the current list.
addListenerCall_replays ==
    /\ build = "app"
    /\ started = 2
    /\ pc = "idle"
    /\ Len(listeners) < 2 + MaxExtraListeners
    /\ addListener(Probe)
    /\ received' = slice(projects)
    /\ lastCall' = Call("addListener", "", Active, FALSE)
    /\ calls' = <<>>
    /\ UNCHANGED <<build, heap, projects, assignedProject, started, pc, cursor>>

\* A call of projectState.addListener by other code of the page, with a
\* listener that keeps its argument.
addListenerCall ==
    /\ build = "app"
    /\ started = 2
    /\ pc = "idle"
    /\ Len(listeners) < 2 + MaxExtraListeners
    /\ addListener(Probe)
    /\ lastCall' = Call("addListener", "", Active, FALSE)
    /\ calls' = <<>>
    /\ UNCHANGED <<build, heap, projects, assignedProject, received, started,
                   pc, cursor>>

\* A call of projectState.addListener by other code of the page, with any of
\* the two listener functions that are not a column's.
addAnyListenerCall ==
    /\ build = "app"
    /\ started = 2
    /\ pc = "idle"
    /\ Len(listeners) < 2 + MaxObservers
    /\ \E listenerFn \in {Probe, Mutator} : addListener(listenerFn)
    /\ lastCall' = Call("addListener", "", Active, FALSE)
    /\ calls' = <<>>
    /\ UNCHANGED <<build, heap, projects, assignedProject, received, started,
                   pc, cursor>>

\* ---------------------------------------------------------------- the store
\* The start of updateListeners: the for-of loop is entered at the first
\* listener, or the method returns at once when there is none.
startUpdateListeners ==
    /\ pc' = IF listeners = <<>> THEN "idle" ELSE "notify"
    /\ cursor' = IF listeners = <<>> THEN 0 ELSE 1

\* Variant of addProject that puts the new project at the front of the list
\* (unshift in place of push).
addProject_unshift(title, description, people) ==
    /\ build = "app"
    /\ started = 2
    /\ pc = "idle"
    /\ Len(heap) < MaxProjects
    /\ \E id \in IdStrings :
         heap' = Append(heap, Project(id, title, description, people, Active))
    /\ projects' = <<Len(heap) + 1>> \o projects
    /\ startUpdateListeners
    /\ lastCall' = Call("addProject", "", Active, TRUE)
    /\ calls' = <<>>
    /\ UNCHANGED <<build, listeners, assignedProject, received, started>>

\* ProjectState.addProject of app.ts: a new Project with status Active is
\* pushed and the listeners are updated.
addProject(title, description, people) ==
    /\ build = "app"
    /\ started = 2
    /\ pc = "idle"
    /\ Len(heap) < MaxProjects
    /\ \E id \in IdStrings :
         heap' = Append(heap, Project(id, title, description, people, Active))
    /\ projects' = Append(projects, Len(heap) + 1)
    /\ startUpdateListeners
    /\ lastCall' = Call("addProject", "", Active, TRUE)
    /\ calls' = <<>>
    /\ UNCHANGED <<build, listeners, assignedProject, received, started>>

\* ProjectState.addProject of part_000: the object literal has no status, and
\* there are no listeners to update.
addProject_part000(title, description, people) ==
    /\ build = "part000"
    /\ pc = "idle"
    /\ Len(heap) < MaxProjects
    /\ \E id \in IdStrings :
         heap' = Append(heap, Project(id, title, description, people, Undefined))
    /\ projects' = Append(projects, Len(heap) + 1)
    /\ lastCall' = Call("addProject", "", Active, TRUE)
    /\ UNCHANGED <<build, listeners, assignedProject, received, started, pc,
                   cursor, calls>>

\* Variant of moveProject that updates the listeners after the if statement
\* instead of inside it.
moveProject_alwaysUpdates(projectId, newStatus) ==
    /\ build = "app"
    /\ started = 2
    /\ pc = "idle"
    /\ LET project == find(projectId) IN
         IF project # 0 /\ heap[project].status # newStatus
         THEN /\ heap' = [heap EXCEPT ![project].status = newStatus]
              /\ lastCall' = Call("moveProject", projectId, newStatus, TRUE)
         ELSE /\ UNCHANGED heap
              /\ lastCall' = Call("moveProject", projectId, newStatus, FALSE)
    /\ startUpdateListeners
    /\ calls' = <<>>
    /\ UNCHANGED <<build, projects, listeners, assignedProject, received, started>>

\* Variant of moveProject that changes the status and tells no listener.
moveProject_silent(projectId, newStatus) ==
    /\ build = "app"
    /\ started = 2
    /\ pc = "idle"
    /\ LET project == find(projectId) IN
         IF project # 0 /\ heap[project].status # newStatus
         THEN /\ heap' = [heap EXCEPT ![project].status = newStatus]
              /\ lastCall' = Call("moveProject", projectId, newStatus, TRUE)
         ELSE /\ UNCHANGED heap
              /\ lastCall' = Call("moveProject", projectId, newStatus, FALSE)
    /\ calls' = <<>>
    /\ UNCHANGED <<build, projects, listeners, assignedProject, received, started,
                   pc, cursor>>

\* ProjectState.moveProject: the first project with the id, when there is one
\* and its status differs, gets the new status and the listeners are updated.
moveProject(projectId, newStatus) ==
    /\ build = "app"
    /\ started = 2
    /\ pc = "idle"
    /\ LET project == find(projectId) IN
         IF project # 0 /\ heap[project].status # newStatus
         THEN /\ heap' = [heap EXCEPT ![project].status = newStatus]
              /\ startUpdateListeners
              /\ lastCall' = Call("moveProject", projectId, newStatus, TRUE)
         ELSE /\ UNCHANGED <<heap, pc, cursor>>
              /\ lastCall' = Call("moveProject", projectId, newStatus, FALSE)
    /\ calls' = <<>>
    /\ UNCHANGED <<build, projects, listeners, assignedProject, received, started>>

\* Variant of listenerArg without the slice(): the listeners are handed the
\* store's own array.
listenerArg_noSlice == [array |-> "projects", items |-> projects]

\* The argument of a listener call, this.projects.slice(): a new array ("copy")
\* with the elements of the store's list.
listenerArg == [array |-> "copy", items |-> slice(projects)]

Reverse(arr) == [i \in 1..Len(arr) |-> arr[Len(arr) + 1 - i]]

\* The contents a listener function can leave in the array it was called with.
\* The column listeners and the probe only read it.
leftBy(listenerFn, items) ==
    IF listenerFn = Mutator /\ items # <<>>
    THEN {Reverse(items), SubSeq(items, 1, Len(items) - 1), Append(items, items[1])}
    ELSE {items}

\* Variant of updateListeners whose loop walks the listeners from the last one
\* registered to the first.
updateListeners_lastFirst ==
    /\ pc = "notify"
    /\ LET listenerFn == listeners[Len(listeners) + 1 - cursor]
           arg == listenerArg
           items == arg.items
       IN /\ IF listenerFn \in ColumnTypes
             THEN /\ assignedProject' =
                        [assignedProject EXCEPT
                           ![listenerFn] = relevantProjects(listenerFn, heap, items)]
                  /\ UNCHANGED received
             ELSE IF listenerFn = Probe
             THEN /\ received' = items
                  /\ UNCHANGED assignedProject
             ELSE UNCHANGED <<assignedProject, received>>
          /\ \E after \in leftBy(listenerFn, items) :
               /\ calls' = Append(calls, [fn |-> listenerFn, items |-> items,
                                          after |-> after])
               /\ projects' = IF arg.array = "projects" THEN after ELSE projects
    /\ IF cursor < Len(listeners)
       THEN cursor' = cursor + 1 /\ pc' = "notify"
       ELSE cursor' = 0 /\ pc' = "idle"
    /\ UNCHANGED <<build, heap, listeners, started, lastCall>>

\* One turn of the loop of updateListeners: the listener at the cursor is called
\* with projects.slice() and runs to its end.  A column listener replaces the
\* column's assignedProject by the filtered array; the probe keeps the array;
\* the mutator changes it.  The store's list changes only if the array handed
\* over is the store's own.
updateListeners ==
    /\ pc = "notify"
    /\ LET listenerFn == listeners[cursor]
           arg == listenerArg
           items == arg.items
       IN /\ IF listenerFn \in ColumnTypes
             THEN /\ assignedProject' =
                        [assignedProject EXCEPT
                           ![listenerFn] = relevantProjects(listenerFn, heap, items)]
                  /\ UNCHANGED received
             ELSE IF listenerFn = Probe
             THEN /\ received' = items
                  /\ UNCHANGED assignedProject
             ELSE UNCHANGED <<assignedProject, received>>
          /\ \E after \in leftBy(listenerFn, items) :
               /\ calls' = Append(calls, [fn |-> listenerFn, items |-> items,
                                          after |-> after])
               /\ projects' = IF arg.array = "projects" THEN after ELSE projects
    /\ IF cursor < Len(listeners)
       THEN cursor' = cursor + 1 /\ pc' = "notify"
       ELSE cursor' = 0 /\ pc' = "idle"
    /\ UNCHANGED <<build, heap, listeners, started, lastCall>>

\* ---------------------------------------------------------------- the store alone
\* The store and the columns driven through the store's operations, whoever
\* calls them: the page's own state stays as it is.
startUp == newProjectList /\ UNCHANGED pageVars

registerProbe == addListenerCall /\ UNCHANGED pageVars

callAddProject ==
    /\ \E t \in Titles, d \in Descriptions, p \in Peoples : addProject(t, d, p)
    /\ UNCHANGED pageVars

callAddProject_part000 ==
    /\ \E t \in Titles, d \in Descriptions, p \in Peoples :
          addProject_part000(t, d, p)
    /\ UNCHANGED pageVars

callMoveProject ==
    /\ \E id \in ProjectIds, s \in ProjectStatus : moveProject(id, s)
    /\ UNCHANGED pageVars

notifyNext == updateListeners /\ UNCHANGED pageVars

Next ==
    \/ startUp
    \/ registerProbe
    \/ callAddProject
    \/ callAddProject_part000
    \/ callMoveProject
    \/ notifyNext

Spec == Init /\ [][Next]_vars

\* ---------------------------------------------------------------- the form
\* The rule values of gatherUserInput.
DescriptionMinLength == 5
PeopleMin == 1
PeopleMax == 5

\* Variant of gatherUserInput that gives up only when all three fields are
\* invalid (&& in place of ||).
gatherUserInput_allInvalid(f) ==
    LET enteredTitle == f.title
        enteredDescription == f.description
        enteredPeople == f.people
        titleValidatable ==
            Validatable(JsString(enteredTitle), Given(TRUE), Absent, Absent, Absent, Absent)
        descriptionValidatable ==
            Validatable(JsString(enteredDescription), Given(TRUE),
                        Given(DescriptionMinLength), Absent, Absent, Absent)
        peopleValidatable ==
            Validatable(toNumber(enteredPeople), Given(TRUE), Absent, Absent,
                        Given(PeopleMin), Given(PeopleMax))
    IN IF /\ ~validate(titleValidatable)
          /\ ~validate(descriptionValidatable)
          /\ ~validate(peopleValidatable)
       THEN <<>>
       ELSE <<enteredTitle, enteredDescription, toNumber(enteredPeople)>>

\* ProjectForm.gatherUserInput (app.ts 277-310, part_000 142-175) on the values
\* f of the input elements: the tuple [title, description, +people] when the
\* three Validatables are valid, nothing (<<>>) after the alert otherwise.
gatherUserInput(f) ==
    LET enteredTitle == f.title
        enteredDescription == f.description
        enteredPeople == f.people
        titleValidatable ==
            Validatable(JsString(enteredTitle), Given(TRUE), Absent, Absent, Absent, Absent)
        descriptionValidatable ==
            Validatable(JsString(enteredDescription), Given(TRUE),
                        Given(DescriptionMinLength), Absent, Absent, Absent)
        peopleValidatable ==
            Validatable(toNumber(enteredPeople), Given(TRUE), Absent, Absent,
                        Given(PeopleMin), Given(PeopleMax))
    IN IF \/ ~validate(titleValidatable)
          \/ ~validate(descriptionValidatable)
          \/ ~validate(peopleValidatable)
       THEN <<>>
       ELSE <<enteredTitle, enteredDescription, toNumber(enteredPeople)>>

\* ProjectForm.submitHandler: with valid input the store's addProject is called
\* and then the inputs are cleared; addProject of app.ts returns when its
\* broadcast is over (see returnFromBroadcast), that of part_000 at once.
\* No submit event fires during a drag (input events are suppressed then).
submitHandler ==
    /\ pc = "idle"
    /\ started = 2
    /\ drag = NoDrag
    /\ LET userInput == gatherUserInput(form) IN
         IF userInput # <<>>
         THEN /\ \/ /\ addProject(userInput[1], userInput[2], userInput[3])
                    /\ UNCHANGED form
                 \/ /\ addProject_part000(userInput[1], userInput[2], userInput[3])
                    /\ form' = ClearedForm
              /\ lastEvent' = Event("submit", "none", TRUE, 0)
         ELSE /\ UNCHANGED <<storeVars, form>>
              /\ lastEvent' = Event("submit", "none", FALSE, 0)
    /\ UNCHANGED <<drag, droppable, validatable, isValid>>

\* One turn of the loop of updateListeners in a page: when the loop ends, the
\* store's operation returns to the handler that called it, and submitHandler
\* goes on to clearInputs (app.ts 326-327).
returnFromBroadcast ==
    /\ updateListeners
    /\ form' = IF pc' = "idle" /\ lastEvent.type = "submit" THEN ClearedForm ELSE form
    /\ UNCHANGED <<drag, droppable, lastEvent, validatable, isValid>>

\* The user edits the three inputs (not during a drag).
typeInputs(title, description, people) ==
    /\ pc = "idle"
    /\ started = 2
    /\ drag = NoDrag
    /\ form' = [title |-> title, description |-> description, people |-> people]
    /\ lastEvent' = Event("input", "none", FALSE, 0)
    /\ UNCHANGED <<storeVars, drag, droppable, validatable, isValid>>

\* What the user can enter.
TitleInputs == {<<>>, <<" ">>, <<"a">>}
DescriptionInputs ==
    {<<"a", "b", "c", "d">>, <<"a", "b", "c", "d", "e">>, <<" ", " ", " ", " ", " ">>}
PeopleInputs == {<<>>, <<"3">>, <<"6">>, <<"2", ".", "5">>, <<"x">>}

userTypes ==
    \E t \in TitleInputs, d \in DescriptionInputs, p \in PeopleInputs :
        typeInputs(t, d, p)

NextForm ==
    \/ startUp
    \/ userTypes
    \/ submitHandler
    \/ returnFromBroadcast

SpecForm == Init /\ [][NextForm]_vars

\* ---------------------------------------------------------------- drag and drop
TextPlain == "text/plain"

\* The status of a column: type === 'active' ? Active : Finished.
columnStatus(type) == IF type = "active" THEN Active ELSE Finished

\* ProjectItem.dragStartHandler on the card of project (an address held by a
\* rendered column): the dataTransfer carries the project's id as text/plain.
dragStartHandler(column, project) ==
    /\ pc = "idle"
    /\ started = 2
    /\ drag = NoDrag
    /\ project \in Range(assignedProject[column])
    /\ drag' = Drag("card", project, TRUE, <<TextPlain>>, heap[project].id)
    /\ lastEvent' = Event("dragstart", column, FALSE, project)
    /\ UNCHANGED <<storeVars, form, droppable, validatable, isValid>>

\* Drags that do not start on a card: an event without dataTransfer, dragged
\* files, a selection of a rich-text page, plain text from elsewhere.
ForeignDrags ==
    { Drag("foreign", 0, FALSE, <<>>, ""),
      Drag("foreign", 0, TRUE, <<"Files">>, ""),
      Drag("foreign", 0, TRUE, <<"text/html", TextPlain>>, "id1"),
      Drag("foreign", 0, TRUE, <<TextPlain>>, "zzz") }

foreignDragEnters ==
    /\ pc = "idle"
    /\ started = 2
    /\ drag = NoDrag
    /\ drag' \in ForeignDrags
    /\ lastEvent' = Event("dragenter", "none", FALSE, 0)
    /\ UNCHANGED <<storeVars, form, droppable, validatable, isValid>>

\* Variant of the test of dragOverHandler that accepts any dataTransfer.
acceptsDrag_anyType(d) == d.dataTransfer

\* The test of dragOverHandler:
\* event.dataTransfer && event.dataTransfer.types[0] === 'text/plain'.
acceptsDrag(d) ==
    /\ d.dataTransfer
    /\ Len(d.types) >= 1
    /\ d.types[1] = TextPlain

\* ProjectList.dragOverHandler of a column the pointer is over (it has entered
\* the column, or has not left it since the last dragover).
dragOverHandler(column) ==
    /\ pc = "idle"
    /\ started = 2
    /\ drag.source # "none"
    /\ drag.over \in {"none", column}
    /\ IF acceptsDrag(drag)
       THEN /\ droppable' = [droppable EXCEPT ![column] = TRUE]
            /\ drag' = [drag EXCEPT !.over = column, !.accepted = TRUE]
            /\ lastEvent' = Event("dragover", column, TRUE, drag.card)
       ELSE /\ UNCHANGED droppable
            /\ drag' = [drag EXCEPT !.over = column, !.accepted = FALSE]
            /\ lastEvent' = Event("dragover", column, FALSE, drag.card)
    /\ UNCHANGED <<storeVars, form, validatable, isValid>>

\* ProjectList.dragLeaveHandler of the column the pointer leaves.
dragLeaveHandler(column) ==
    /\ pc = "idle"
    /\ started = 2
    /\ drag.source # "none"
    /\ drag.over = column
    /\ droppable' = [droppable EXCEPT ![column] = FALSE]
    /\ drag' = [drag EXCEPT !.over = "none", !.accepted = FALSE]
    /\ lastEvent' = Event("dragleave", column, FALSE, drag.card)
    /\ UNCHANGED <<storeVars, form, validatable, isValid>>

\* ProjectList.dropHandler of a column; the drop event fires on the column
\* whose last dragover had its default prevented, and ends the drag.
dropHandler(column) ==
    /\ drag.source # "none"
    /\ drag.over = column
    /\ drag.accepted
    /\ LET prjId == drag.data IN
         moveProject(prjId, columnStatus(column))
    /\ drag' = NoDrag
    /\ lastEvent' = Event("drop", column, TRUE, drag.card)
    /\ UNCHANGED <<form, droppable, validatable, isValid>>

\* ProjectItem.dragEndHandler (a console.log), and the end of a foreign drag:
\* the drag ends outside the columns.
dragEndHandler ==
    /\ pc = "idle"
    /\ started = 2
    /\ drag.source # "none"
    /\ drag.over = "none"
    /\ drag' = NoDrag
    /\ lastEvent' = Event("dragend", "none", FALSE, drag.card)
    /\ UNCHANGED <<storeVars, form, droppable, validatable, isValid>>

InitDrag == Init /\ build = "app"

userTypesProject == typeInputs(<<"a">>, <<"a", "b", "c", "d", "e">>, <<"3">>)

userStartsDrag ==
    \E column \in ColumnTypes, project \in 1..MaxProjects :
        dragStartHandler(column, project)

userDragsOver == \E column \in ColumnTypes : dragOverHandler(column)

userLeaves == \E column \in ColumnTypes : dragLeaveHandler(column)

userDrops == \E column \in ColumnTypes : dropHandler(column)

NextDrag ==
    \/ startUp
    \/ userTypesProject
    \/ submitHandler
    \/ returnFromBroadcast
    \/ userStartsDrag
    \/ foreignDragEnters
    \/ userDragsOver
    \/ userLeaves
    \/ userDrops
    \/ dragEndHandler

SpecDrag == InitDrag /\ [][NextDrag]_vars

\* ---------------------------------------------------------------- the observers
\* The store with listeners that change the array they are given.
InitObservers == Init /\ build = "app"

registerListener == addAnyListenerCall /\ UNCHANGED pageVars

callAddProjectOnce ==
    /\ \E d \in Descriptions, p \in Peoples : addProject("A", d, p)
    /\ UNCHANGED pageVars

NextObservers ==
    \/ startUp
    \/ registerListener
    \/ callAddProjectOnce
    \/ callMoveProject
    \/ notifyNext

SpecObservers == InitObservers /\ [][NextObservers]_vars

\* ---------------------------------------------------------------- validate alone
\* The values and rules validate is called with.
ValidateValues ==
    {JsString(<<>>), JsString(<<" ">>), JsString(<<" ", "a", " ">>),
     JsString(<<"a", "b", "c", "d">>), JsString(<<"a", "b", "c", "d", "e">>),
     JsString(<<"a", "b", "c", "d", "e", "f">>),
     JsNumber(0), JsNumber(10), JsNumber(25), JsNumber(30), JsNumber(50),
     JsNumber(60), JsNumber(0 - 10), NaN}
RequiredOptions == {Absent, Given(TRUE), Given(FALSE)}
MinLengthOptions == {Absent, Given(5)}
MaxLengthOptions == {Absent, Given(5)}
MinOptions == {Absent, Given(1)}
MaxOptions == {Absent, Given(5)}

InitValidate ==
    /\ InitStore
    /\ InitPage
    /\ \E value \in ValidateValues, required \in RequiredOptions,
          minLength \in MinLengthOptions, maxLength \in MaxLengthOptions,
          min \in MinOptions, max \in MaxOptions :
          validatable = Validatable(value, required, minLength, maxLength, min, max)

\* A call of validate with the argument drawn at the start.
callValidate ==
    /\ isValid = "pending"
    /\ isValid' = IF validate(validatable) THEN "true" ELSE "false"
    /\ UNCHANGED <<storeVars, form, drag, droppable, lastEvent, validatable>>

NextValidate == callValidate

SpecValidate == InitValidate /\ [][NextValidate]_vars

\* ---------------------------------------------------------------- claims
\* A step that is a call of the store's operation op (the store is idle and the
\* call is the one recorded last).
CallStep(op) ==
    /\ pc = "idle"
    /\ vars' # vars
    /\ lastCall'.op = op

MoveStep(projectId, newStatus) ==
    /\ CallStep("moveProject")
    /\ lastCall'.projectId = projectId
    /\ lastCall'.newStatus = newStatus

\* The fields of a project other than its status.
Identity(prj) == <<prj.id, prj.title, prj.description, prj.people>>

\* The listener functions invoked by the last call, in the order of invocation.
CallFns == [i \in 1..Len(calls) |-> calls[i].fn]

\* sub lists elements of s in the relative order they have in s.
RECURSIVE IsSubsequence(_, _)
IsSubsequence(sub, s) ==
    IF sub = <<>> THEN TRUE
    ELSE IF s = <<>> THEN FALSE
    ELSE IF Head(sub) = Head(s) THEN IsSubsequence(Tail(sub), Tail(s))
    ELSE IsSubsequence(sub, Tail(s))

\* C1: every addProject call grows the project list by exactly one element: the
\* new project is appended at the end with status Active, and every project
\* already in the list keeps its position and all of its fields.
C1_AddProjectAppendsActive ==
    [][CallStep("addProject") =>
          /\ Len(projects') = Len(projects) + 1
          /\ heap'[projects'[Len(projects')]].status = Active
          /\ \A i \in 1..Len(projects) :
                /\ projects'[i] = projects[i]
                /\ heap'[projects[i]] = heap[projects[i]]]_vars

\* C2: for every project p of the store and every status s other than p's,
\* moveProject(p.id, s) sets p's status to s and leaves unchanged the status of
\* every other project, the other fields of every project, and the list.
C2_MoveChangesExactlyThatProject ==
    [][\A p \in Range(projects), s \in ProjectStatus :
          (heap[p].status # s /\ MoveStep(heap[p].id, s)) =>
             /\ heap'[p].status = s
             /\ \A q \in Range(projects) \ {p} : heap'[q].status = heap[q].status
             /\ \A q \in Range(projects) : Identity(heap'[q]) = Identity(heap[q])
             /\ projects' = projects]_vars

C4_MoveUnknownIdIgnored ==
    [][\A id \in ProjectIds, s \in ProjectStatus :
          ((\A p \in Range(projects) : heap[p].id # id) /\ MoveStep(id, s)) =>
             /\ UNCHANGED <<heap, projects, listeners, assignedProject, received>>
             /\ pc' = "idle"
             /\ calls' = <<>>
             /\ ~lastCall'.changed]_vars

C4_Witness ==
    /\ lastCall.op = "moveProject"
    /\ lastCall.projectId = ""
    /\ pc = "idle"
    /\ Len(projects) >= 2
    /\ Len(assignedProject["active"]) >= 1
    /\ Len(assignedProject["finished"]) >= 1
    /\ calls = <<>>

\* C5: every addProject call and every status-changing moveProject call makes
\* exactly one broadcast, finished before any other call starts: the observers
\* registered so far are invoked once each in registration order, one after the
\* other, each with the full current project list.
C5_OneOrderedBroadcast ==
    /\ [](lastCall.op \in {"addProject", "moveProject"} /\ lastCall.changed
             /\ build = "app" =>
            /\ CallFns = IF pc = "idle" THEN listeners
                         ELSE SubSeq(listeners, 1, cursor - 1)
            /\ \A i \in 1..Len(calls) : calls[i].items = projects)
    /\ [][/\ pc = "notify" =>
               /\ UNCHANGED <<heap, projects, listeners, lastCall>>
               /\ Len(calls') = Len(calls) + 1
          /\ (CallStep("addProject") /\ build = "app") => pc' = "notify"
          /\ (CallStep("moveProject") /\ lastCall'.changed) => pc' = "notify"]_vars

C5_Witness ==
    /\ pc = "idle"
    /\ lastCall.op = "moveProject"
    /\ lastCall.changed
    /\ CallFns = <<"active", "finished", Probe>>
    /\ Len(projects) >= 2

\* C6: a snapshot handed to an observer is an immutable copy: no later call
\* changes the contents of an array an observer was given (neither which
\* projects it holds nor the fields of those projects).
C6_SnapshotImmutable ==
    [][Deref(heap', received) = Deref(heap, received)]_vars

\* C7: in every reachable state every project of the store has a status that is
\* one of Active and Finished.
C7_StatusAlwaysDefined ==
    \A p \in Range(projects) : heap[p].status \in ProjectStatus

\* C8: in every reachable state the ids of the projects in the store are
\* pairwise distinct.
C8_IdsDistinct ==
    \A i, j \in 1..Len(projects) :
        i # j => heap[projects[i]].id # heap[projects[j]].id

\* C9: no step removes a project from the store or changes the position of an
\* existing project or its id, title, description or people; a status changes
\* only in a moveProject call.
C9_OnlyStatusChangesOnlyByMove ==
    [][/\ Len(projects') >= Len(projects)
       /\ \A i \in 1..Len(projects) :
             /\ projects'[i] = projects[i]
             /\ Identity(heap'[projects[i]]) = Identity(heap[projects[i]])
             /\ heap'[projects[i]].status # heap[projects[i]].status =>
                   CallStep("moveProject")]_vars

C9_Witness ==
    /\ pc = "idle"
    /\ lastCall.op = "addListener"
    /\ Len(projects) = MaxProjects
    /\ \E p \in Range(projects) : heap[p].status = Finished
    /\ \E p \in Range(projects) : heap[p].status = Active

\* C10: for every snapshot, the subset the 'active' column keeps and the subset
\* the 'finished' column keeps are disjoint, together hold every project of the
\* snapshot, and each lists its projects in the order of the snapshot.
C10_FilterPartition ==
    build = "app" =>
        LET items == slice(projects)
            act == relevantProjects("active", heap, items)
            fin == relevantProjects("finished", heap, items)
        IN /\ Range(act) \cap Range(fin) = {}
           /\ Range(act) \cup Range(fin) = Range(items)
           /\ Len(act) + Len(fin) = Len(items)
           /\ IsSubsequence(act, items)
           /\ IsSubsequence(fin, items)

C10_Witness ==
    /\ pc = "idle"
    /\ Len(projects) = MaxProjects
    /\ assignedProject["active"] = relevantProjects("active", heap, projects)
    /\ assignedProject["finished"] = relevantProjects("finished", heap, projects)
    /\ Len(assignedProject["active"]) >= 1
    /\ Len(assignedProject["finished"]) >= 2
    /\ assignedProject["finished"][1] < assignedProject["active"][1]

\* What each rule of a Validatable asks of the value.  A number's text is
\* never empty; the length rules speak of strings and the range rules of
\* numbers, and NaN is in no range.
RequiredRulePasses(value) ==
    value.type = "string" => \E i \in 1..Len(value.chars) : value.chars[i] \notin WhiteSpace
MinLengthRulePasses(value, n) == value.type = "string" => Len(value.chars) >= n
MaxLengthRulePasses(value, n) == value.type = "string" => Len(value.chars) <= n
MinRulePasses(value, n) == value.type = "number" => (~value.nan /\ value.tenths >= 10 * n)
MaxRulePasses(value, n) == value.type = "number" => (~value.nan /\ value.tenths <= 10 * n)

EveryRulePasses(v) ==
    /\ v.required = Given(TRUE) => RequiredRulePasses(v.value)
    /\ v.minLength # Absent => MinLengthRulePasses(v.value, v.minLength[1])
    /\ v.maxLength # Absent => MaxLengthRulePasses(v.value, v.maxLength[1])
    /\ v.min # Absent => MinRulePasses(v.value, v.min[1])
    /\ v.max # Absent => MaxRulePasses(v.value, v.max[1])

\* The five calls the specification lists, with their results.
ValidateExamples ==
    { <<Validatable(JsString(<<>>), Given(TRUE), Absent, Absent, Absent, Absent), "false">>,
      <<Validatable(JsString(<<"a", "b", "c", "d">>), Given(TRUE), Given(5), Absent,
                    Absent, Absent), "false">>,
      <<Validatable(JsString(<<"a", "b", "c", "d", "e">>), Given(TRUE), Given(5), Absent,
                    Absent, Absent), "true">>,
      <<Validatable(JsNumber(30), Absent, Absent, Absent, Given(1), Given(5)), "true">>,
      <<Validatable(JsNumber(60), Absent, Absent, Absent, Given(1), Given(5)), "false">> }

\* C13: validate returns true exactly when every rule given for the value
\* passes: required is non-empty after trimming, minLength and maxLength bound
\* the length of a string, min and max bound a number; and the five calls the
\* specification lists give the results it lists.
C13_ValidateIsConjunctionOfRules ==
    isValid # "pending" =>
        /\ (isValid = "true") <=> EveryRulePasses(validatable)
        /\ \A ex \in ValidateExamples : validatable = ex[1] => isValid = ex[2]

C13_Witness ==
    /\ isValid = "true"
    /\ validatable = Validatable(JsString(<<"a", "b", "c", "d", "e">>), Given(TRUE),
                                 Given(5), Absent, Absent, Absent)

\* C18: addListener only appends the observer to the listener sequence: it
\* invokes neither the new observer nor an existing one and leaves the project
\* list unchanged; an observer is invoked only by the broadcast of a later
\* addProject or status-changing moveProject, with the full list.
C18_AddListenerOnlyAppends ==
    /\ [][CallStep("addListener") =>
             /\ Len(listeners') = Len(listeners) + 1
             /\ SubSeq(listeners', 1, Len(listeners)) = listeners
             /\ UNCHANGED <<heap, projects, assignedProject, received>>
             /\ pc' = "idle"
             /\ calls' = <<>>]_vars
    /\ [][received' # received =>
             /\ pc = "notify"
             /\ lastCall.op \in {"addProject", "moveProject"}
             /\ lastCall.changed
             /\ received' = projects]_vars
    /\ [](pc = "idle" /\ lastCall.op \in {"addProject", "moveProject"}
             /\ lastCall.changed /\ Probe \in Range(listeners) =>
            received = projects)

C18_Witness ==
    /\ pc = "idle"
    /\ lastCall.op = "addListener"
    /\ listeners = <<"active", "finished", Probe>>
    /\ Len(projects) >= 2
    /\ received = <<>>

\* C19: each observer of a broadcast gets its own copy of the list: an observer
\* that adds, removes or reorders elements of the array it was given changes
\* neither the store's project list nor the array an observer invoked later, in
\* this broadcast or a later one, is given.
C19_ObserversGetSeparateCopies ==
    /\ [](\A i \in 1..Len(calls) : calls[i].items = projects)
    /\ [][pc = "notify" =>
             /\ projects' = projects
             /\ received' # received => received' = projects]_vars

C19_Witness ==
    /\ pc = "idle"
    /\ Len(projects) >= 2
    /\ \E i, j \in 1..Len(calls) :
          /\ i < j
          /\ calls[i].fn = Mutator
          /\ calls[i].after # calls[i].items
          /\ calls[j].fn = Probe
          /\ calls[j].items = projects
          /\ received = projects

\* The three fields pass the rules the form declares for them: title required;
\* description required with at least 5 characters; people required, from 1 to 5.
FieldsValid(f) ==
    /\ EveryRulePasses(Validatable(JsString(f.title), Given(TRUE), Absent, Absent,
                                   Absent, Absent))
    /\ EveryRulePasses(Validatable(JsString(f.description), Given(TRUE), Given(5),
                                   Absent, Absent, Absent))
    /\ EveryRulePasses(Validatable(toNumber(f.people), Given(TRUE), Absent, Absent,
                                   Given(1), Given(5)))

SubmitStep ==
    /\ pc = "idle"
    /\ vars' # vars
    /\ lastEvent'.type = "submit"

\* C12: a form submission reaches the store only when the three fields are
\* valid.  When one is not, addProject is not called: the project list, the
\* columns and the fields stay as they are and no observer is invoked.  When
\* all are, addProject is called once with the entered values, and the fields
\* are cleared when it has returned.
C12_SubmitOnlyWhenValid ==
    /\ [][SubmitStep =>
             IF FieldsValid(form)
             THEN /\ lastEvent'.accepted
                  /\ lastCall'.op = "addProject"
                  /\ Len(projects') = Len(projects) + 1
                  /\ SubSeq(projects', 1, Len(projects)) = projects
                  /\ LET new == heap'[projects'[Len(projects')]] IN
                       /\ new.title = form.title
                       /\ new.description = form.description
                       /\ new.people = toNumber(form.people)
                  /\ pc' = "idle" => form' = ClearedForm
             ELSE /\ ~lastEvent'.accepted
                  /\ UNCHANGED <<storeVars, form>>]_vars
    /\ [][pc = "notify" =>
             /\ UNCHANGED <<heap, projects>>
             /\ form' = IF pc' = "idle" /\ lastEvent.type = "submit"
                        THEN ClearedForm ELSE form]_vars

C12_Witness ==
    /\ build = "app"
    /\ pc = "idle"
    /\ lastEvent = Event("submit", "none", FALSE, 0)
    /\ form = [title |-> <<"a">>, description |-> <<"a", "b", "c", "d", "e">>,
               people |-> <<"6">>]
    /\ Len(projects) >= 1
    /\ Len(assignedProject["active"]) = Len(projects)

\* C14: every project of the store has a title that is not empty after
\* trimming, a description of at least 5 characters and a people value that is
\* an integer from 1 to 5.
C14_StoredProjectsAreValid ==
    \A p \in Range(projects) :
        /\ trim(heap[p].title) # <<>>
        /\ Len(heap[p].description) >= 5
        /\ ~heap[p].people.nan
        /\ heap[p].people.tenths % 10 = 0
        /\ heap[p].people.tenths >= 10
        /\ heap[p].people.tenths <= 50

DropStep ==
    /\ pc = "idle"
    /\ vars' # vars
    /\ lastEvent'.type = "drop"

\* The projects of the store with status s, in store order.
WithStatus(s) == SelectSeq(projects, LAMBDA a : heap[a].status = s)

\* C11: dropping the card of a project on a column calls moveProject with the
\* project's id and the column's status.  When the project is in another
\* column, it (and nothing else) takes the column's status and, when the
\* broadcast is over, it is held by the target column and not by the other one;
\* when it is in that column already, the store and both columns stay as they
\* are.
C11_DropMovesTheCard ==
    /\ [][(DropStep /\ drag.source = "card") =>
             LET p == drag.card
                 column == lastEvent'.column
                 target == columnStatus(column)
             IN /\ lastCall'.op = "moveProject"
                /\ lastCall'.projectId = heap[p].id
                /\ lastCall'.newStatus = target
                /\ IF heap[p].status # target
                   THEN /\ heap' = [heap EXCEPT ![p].status = target]
                        /\ projects' = projects
                   ELSE UNCHANGED <<heap, projects, assignedProject, pc>>]_vars
    /\ [](/\ pc = "idle"
          /\ lastEvent.type = "drop"
          /\ lastEvent.card # 0
          => LET p == lastEvent.card
                 other == CHOOSE t \in ColumnTypes : t # lastEvent.column
             IN /\ p \in Range(assignedProject[lastEvent.column])
                /\ p \notin Range(assignedProject[other]))

\* C15: when no broadcast is in progress on the page set up by the script, the
\* active column holds the Active projects of the store and the finished
\* column the Finished ones, in store order, and every project of the store is
\* held by exactly one column.
C15_ColumnsMirrorStore ==
    (build = "app" /\ started = 2 /\ pc = "idle") =>
        /\ assignedProject["active"] = WithStatus(Active)
        /\ assignedProject["finished"] = WithStatus(Finished)
        /\ \A a \in Range(projects) :
             (a \in Range(assignedProject["active"]))
                 # (a \in Range(assignedProject["finished"]))

C15_Witness ==
    /\ pc = "idle"
    /\ lastEvent.type = "drop"
    /\ lastCall.changed
    /\ Len(projects) = 3
    /\ Len(assignedProject["active"]) = 1
    /\ Len(assignedProject["finished"]) = 2

DragOverStep ==
    /\ vars' # vars
    /\ lastEvent'.type = "dragover"

\* C16: dragOverHandler accepts a drag (prevents the default and marks the
\* column droppable) only when the event has a dataTransfer whose declared
\* type is text/plain; otherwise it changes nothing; it never changes the store
\* or what a column holds.
C16_DragOverAcceptsPlainTextOnly ==
    [][DragOverStep =>
          LET column == lastEvent'.column
              plainText == drag.dataTransfer /\ drag.types = <<"text/plain">>
          IN /\ lastEvent'.accepted <=> plainText
             /\ IF plainText
                THEN droppable' = [droppable EXCEPT ![column] = TRUE]
                ELSE droppable' = droppable
             /\ UNCHANGED <<storeVars, form>>]_vars

C16_Witness ==
    /\ lastEvent.type = "dragover"
    /\ ~lastEvent.accepted
    /\ drag.types = <<"text/html", "text/plain">>
    /\ drag.over = "finished"
    /\ ~droppable["finished"]
    /\ Len(projects) >= 1

\* C17: a column is marked droppable only while a drag that it has accepted is
\* over it; when no drag is in progress no column is marked.
C17_DroppableOnlyWhileHovering ==
    \A column \in ColumnTypes :
        droppable[column] =>
            /\ drag.source # "none"
            /\ drag.over = column
            /\ drag.accepted

====
